---- MODULE Spec2Model ----
(***************************************************************************)
(* Model of t-rex's filesystem tile cache (src/cache/filecache.rs) and of  *)
(* the service derivation and tile route of the web server                 *)
(* (src/webserver/server.rs).                                              *)
(*                                                                         *)
(* A path is a sequence of segments; the root directory is <<>>.  A file   *)
(* system is a set of directories and a function from file paths to their  *)
(* bytes.  Option values are sequences of length <= 1: <<>> is None and    *)
(* <<v>> is Some(v).                                                       *)
(***************************************************************************)
EXTENDS Integers, Sequences, FiniteSets, TLC

\* ------------------------------------------------------------------------
\* Bounds of the model
\* ------------------------------------------------------------------------
MaxLen == 2          \* longest blob handed to Filecache.write
MaxLayers == 2       \* most layers detect_layers finds, or a tileset has

\* ------------------------------------------------------------------------
\* The web server (src/webserver/server.rs)
\* ------------------------------------------------------------------------
VARIABLES args,          \* the command line: --simplify and --clip
          detected,      \* what pg.detect_layers returned
          layers,        \* service_from_args: the layers not yet popped
          tilesets,      \* the tilesets of the service
          tileset_infos, \* webserver: the TilesetInfo of every tileset
          spc,           \* the place in service_from_args and webserver
          resp           \* the last tile request: its path parameters, what
                         \* the handler parsed of them, and how it ended

serverVars == <<args, detected, layers, tilesets, tileset_infos, spc, resp>>

\* ------------------------------------------------------------------------
\* Filecache (src/cache/filecache.rs) and the file system under it
\* ------------------------------------------------------------------------
VARIABLES dirs,      \* the directories that exist
          files,     \* file path -> bytes of the file
          noaccess,  \* files of mode 000: stat works, open and create fail
          cw,        \* worker -> the Cache call it runs, or ran last
          clean,     \* key -> Some(B) once a write(K, B) that no other write
                     \*        of K overlapped returned Ok; None as soon as
                     \*        another write of K is entered
          handed     \* key -> the blobs handed to write(K, _) so far: {},
                     \*        {B}, or Blobs once they were not all the same

cacheVars == <<dirs, files, noaccess, cw, clean, handed>>
vars == <<cacheVars, serverVars>>

Workers == {"w1", "w2"}
Byte == {1, 2}
Hole == 0            \* the byte a file shows where a write landed past its end
\* the blobs handed to write: up to MaxLen bytes of one value
Blobs == {[i \in 1..n |-> b] : n \in 0..MaxLen, b \in Byte}

None == <<>>
Some(v) == <<v>>

\* the server is not part of the runs of the cache
NoServer ==
    /\ args = [simplify |-> None, clip |-> None]
    /\ detected = <<>> /\ layers = <<>> /\ tilesets = <<>>
    /\ tileset_infos = <<>> /\ spc = "off" /\ resp = None

\* Filecache { basepath: dir.to_string() }
basepath == <<"cache">>

\* the keys handed to the cache: a tile below a tileset directory that does
\* not exist yet, and a key with a path-traversal segment
TileKey == <<"ts", "0.pbf">>
DotDotKey == <<"..", "etc.pbf">>
Keys == {TileKey, DotDotKey}

\* format!("{}/{}", self.basepath, path)
Fullpath(path) == basepath \o path

\* p.parent().unwrap()
Parent(p) == SubSeq(p, 1, Len(p) - 1)

RECURSIVE Resolve(_, _)
\* the directory entry a path names once the file system has followed its
\* segments from `at`; ".." steps to the parent directory
Resolve(at, segs) ==
    IF segs = <<>> THEN at
    ELSE IF Head(segs) = ".."
         THEN Resolve(IF at = <<>> THEN at ELSE Parent(at), Tail(segs))
         ELSE Resolve(Append(at, Head(segs)), Tail(segs))

\* the entry the full path of a key names
Target(path) == Resolve(<<>>, Fullpath(path))

\* every directory on the way to the last segment of p exists
Walkable(p) == \A i \in 1..(Len(p) - 1) : Resolve(<<>>, SubSeq(p, 1, i)) \in dirs

\* the directories fs::create_dir_all(d) makes sure of, outermost first
Ancestors(d) ==
    LET r == Resolve(<<>>, d) IN [i \in 1..Len(r) |-> SubSeq(r, 1, i)]

IsUnder(p, root) == Len(p) > Len(root) /\ SubSeq(p, 1, Len(root)) = root

\* File::create without O_TRUNC: an existing file keeps its bytes
CreateKeep(fs, r) == IF r \in DOMAIN fs THEN fs ELSE (r :> <<>>) @@ fs

\* File::create on an existing file keeps the inode without its bytes
\* (O_CREAT | O_TRUNC); on a missing one it makes an empty file
CreateTruncate(fs, r) == (r :> <<>>) @@ fs

\* bytes of a file after write(2) stored `chunk` at offset `off`
Overlay(old, off, chunk) ==
    LET n == IF Len(old) > off + Len(chunk) THEN Len(old) ELSE off + Len(chunk) IN
    [i \in 1..n |->
        IF i > off /\ i <= off + Len(chunk) THEN chunk[i - off]
        ELSE IF i <= Len(old) THEN old[i]
        ELSE Hole]

\* Path::new(&fullpath).exists(): stat of the path succeeds
Exists(path) ==
    /\ Walkable(Fullpath(path))
    /\ Target(path) \in (DOMAIN files) \cup dirs

\* the mode of the entry lets this process open it
Readable(path) == Target(path) \notin noaccess

\* a read that takes every entry it finds for an open file
CanOpenAnyMode(path) ==
    /\ Walkable(Fullpath(path))
    /\ Target(path) \in (DOMAIN files) \cup dirs

\* File::open(&fullpath) is Ok
CanOpen(path) ==
    /\ Walkable(Fullpath(path))
    /\ Target(path) \in (DOMAIN files) \cup dirs
    /\ Target(path) \notin noaccess

\* the cache entry of a key: Some(bytes of the file it names), or None
Entry(path) ==
    IF Target(path) \in DOMAIN files THEN Some(files[Target(path)]) ELSE None

\* what File::open found: the path it walked to, if the walk got there
Touched(path) == IF Walkable(Fullpath(path)) THEN Some(Target(path)) ELSE None

\* a worker between two calls of the Cache trait, with the result of the
\* last one:
\*   op, path, obj   the call and its arguments
\*   pc              the place in the call, "done" after its return
\*   off             offset of the file handle of write
\*   ret             the value returned
\*   calls, seen     how often read invoked its consumer, and the bytes the
\*                   consumer read from the stream
\*   touched         the file system entry the call opened, created or tested
\*   found           read: the key existed and was readable at File::open
\*   solo, before    write: no other write of the key was running when this
\*                   one was entered and none was entered since; and, as
\*                   long as that is so, the entry of the key at the call
\*                   (both kept until the write returns Ok)
\*   expect          read: clean[key] at File::open when that failed, and
\*                   when the consumer read the stream otherwise;
\*                   exists: clean[key] at the call
Idle == [op |-> "none", pc |-> "done", path |-> None, obj |-> <<>>, off |-> 0,
         ret |-> "none", calls |-> 0, seen |-> None, touched |-> None,
         found |-> FALSE, solo |-> FALSE, before |-> None, expect |-> None]

\* write has returned: the file handle is dropped; the record keeps the
\* bytes that an Ok says are stored, and the entry that an Err of an
\* undisturbed write says is untouched
Returned(c, result) ==
    IF result = "Ok"
    THEN [c EXCEPT !.pc = "done", !.ret = "Ok", !.off = 0,
                   !.solo = FALSE, !.before = None]
    ELSE [c EXCEPT !.pc = "done", !.ret = "Err", !.off = 0, !.obj = <<>>]

Writing(w, k) == cw[w].op = "write" /\ cw[w].pc # "done" /\ cw[w].path = Some(k)
Wrote(w, k) == cw[w].op = "write" /\ cw[w].path = Some(k)

Hand(set, b) == IF set \subseteq {b} THEN {b} ELSE Blobs

\* the tile of an earlier run that this process may not open
OldTile == <<1>>

InitFs ==
    \/ /\ dirs \in {{<<>>}, {<<>>, basepath}}
       /\ files = << >>
       /\ noaccess = {}
    \/ /\ dirs = {<<>>, basepath, Parent(Target(TileKey))}
       /\ files = (Target(TileKey) :> OldTile)
       /\ noaccess = {Target(TileKey)}

InitCalls ==
    /\ cw = [w \in Workers |-> Idle]
    /\ clean = [k \in Keys |-> None]
    /\ handed = [k \in Keys |-> IF Entry(k) = None THEN {} ELSE Blobs]

\* Filecache::read, up to the match on File::open
Read(w, k) ==
    /\ cw[w].pc = "done"
    /\ cw' = [cw EXCEPT ![w] =
          IF CanOpen(k)
          THEN [Idle EXCEPT !.op = "read", !.pc = "consume", !.path = Some(k),
                            !.ret = "none", !.touched = Touched(k),
                            !.found = Exists(k) /\ Readable(k)]
          ELSE [Idle EXCEPT !.op = "read", !.pc = "done", !.path = Some(k),
                            !.ret = "false", !.touched = Touched(k),
                            !.found = Exists(k) /\ Readable(k),
                            !.expect = clean[k]]]
    /\ UNCHANGED <<dirs, files, noaccess, clean, handed>>
    /\ UNCHANGED serverVars

\* Filecache::read, Ok(mut f) => { read(&mut f); true }: the consumer reads
\* the open file to its end
Consume(w) ==
    /\ cw[w].op = "read" /\ cw[w].pc = "consume"
    /\ cw' = [cw EXCEPT ![w].pc = "done", ![w].ret = "true",
                        ![w].calls = @ + 1,
                        ![w].seen = IF cw[w].touched[1] \in DOMAIN files
                                    THEN Some(files[cw[w].touched[1]])
                                    ELSE None,
                        ![w].expect = clean[cw[w].path[1]]]
    /\ UNCHANGED <<dirs, files, noaccess, clean, handed>>
    /\ UNCHANGED serverVars

\* Filecache::exists
ExistsCall(w, k) ==
    /\ cw[w].pc = "done"
    /\ cw' = [cw EXCEPT ![w] =
          [Idle EXCEPT !.op = "exists", !.path = Some(k),
                       !.ret = IF Exists(k) THEN "true" ELSE "false",
                       !.touched = Touched(k), !.expect = clean[k]]]
    /\ UNCHANGED <<dirs, files, noaccess, clean, handed>>
    /\ UNCHANGED serverVars

\* Filecache::write is entered with (path, obj)
Write(w, k, b) ==
    /\ cw[w].pc = "done"
    /\ cw' = [v \in Workers |->
          IF v = w
          THEN [Idle EXCEPT !.op = "write", !.pc = "mkdir", !.path = Some(k),
                            !.obj = b,
                            !.solo = \A u \in Workers \ {w} : ~Writing(u, k),
                            !.before = IF \A u \in Workers \ {w} : ~Writing(u, k)
                                       THEN Entry(k) ELSE None]
          ELSE IF Wrote(v, k) THEN [cw[v] EXCEPT !.solo = FALSE, !.before = None]
          ELSE cw[v]]
    /\ clean' = [clean EXCEPT ![k] = None]
    /\ handed' = [handed EXCEPT ![k] = Hand(@, b)]
    /\ UNCHANGED <<dirs, files, noaccess>>
    /\ UNCHANGED serverVars

\* try!(fs::create_dir_all(p.parent().unwrap())): every missing directory
\* is made, or the call fails after making the first n of them
CreateDirAll(w) ==
    /\ cw[w].op = "write" /\ cw[w].pc = "mkdir"
    /\ LET anc == Ancestors(Parent(Fullpath(cw[w].path[1]))) IN
       \/ /\ dirs' = dirs \cup {anc[i] : i \in 1..Len(anc)}
          /\ cw' = [cw EXCEPT ![w].pc = "create"]
       \/ \E n \in 0..(Len(anc) - 1) :
            /\ anc[n + 1] \notin dirs
            /\ dirs' = dirs \cup {anc[i] : i \in 1..n}
            /\ cw' = [cw EXCEPT ![w] = Returned(cw[w], "Err")]
    /\ UNCHANGED <<files, noaccess, clean, handed>>
    /\ UNCHANGED serverVars

\* try!(File::create(&fullpath)): the file is created or truncated, or the
\* call fails and changes nothing
FileCreate(w) ==
    /\ cw[w].op = "write" /\ cw[w].pc = "create"
    /\ LET k == cw[w].path[1] IN
       \/ /\ Walkable(Fullpath(k))
          /\ Target(k) \notin noaccess \cup dirs
          /\ files' = CreateTruncate(files, Target(k))
          /\ cw' = [cw EXCEPT ![w].pc = "write_all", ![w].off = 0,
                              ![w].touched = Some(Target(k))]
       \/ /\ files' = files
          /\ cw' = [cw EXCEPT ![w] = Returned(cw[w], "Err")]
    /\ UNCHANGED <<dirs, noaccess, clean, handed>>
    /\ UNCHANGED serverVars

\* f.write_all(obj): one write(2) stores the next n >= 1 bytes at the
\* offset of this file handle
WriteChunk(w) ==
    /\ cw[w].op = "write" /\ cw[w].pc = "write_all"
    /\ cw[w].off < Len(cw[w].obj)
    /\ \E n \in 1..(Len(cw[w].obj) - cw[w].off) :
         /\ files' = [files EXCEPT ![cw[w].touched[1]] =
               Overlay(@, cw[w].off, SubSeq(cw[w].obj, cw[w].off + 1, cw[w].off + n))]
         /\ cw' = [cw EXCEPT ![w].off = @ + n]
    /\ UNCHANGED <<dirs, noaccess, clean, handed>>
    /\ UNCHANGED serverVars

\* f.write_all(obj) fails on a write(2): its error is the result of write
WriteFail(w) ==
    /\ cw[w].op = "write" /\ cw[w].pc = "write_all"
    /\ cw[w].off < Len(cw[w].obj)
    /\ cw' = [cw EXCEPT ![w] = Returned(cw[w], "Err")]
    /\ UNCHANGED <<dirs, files, noaccess, clean, handed>>
    /\ UNCHANGED serverVars

\* f.write_all(obj) has stored every byte: write returns Ok(())
WriteOk(w) ==
    /\ cw[w].op = "write" /\ cw[w].pc = "write_all"
    /\ cw[w].off = Len(cw[w].obj)
    /\ cw' = [cw EXCEPT ![w] = Returned(cw[w], "Ok")]
    /\ clean' = [clean EXCEPT ![cw[w].path[1]] =
                    IF cw[w].solo THEN Some(cw[w].obj) ELSE None]
    /\ UNCHANGED <<dirs, files, noaccess, handed>>
    /\ UNCHANGED serverVars

CacheStep(w, keys) ==
    \/ \E k \in keys : Read(w, k)
    \/ Consume(w)
    \/ \E k \in keys : ExistsCall(w, k)
    \/ \E k \in keys, b \in Blobs : Write(w, k, b)
    \/ CreateDirAll(w)
    \/ FileCreate(w)
    \/ WriteChunk(w)
    \/ WriteFail(w)
    \/ WriteOk(w)

\* the worker threads of the server serve tiles from one Filecache
InitCache == InitFs /\ InitCalls /\ NoServer
NextCache == \E w \in Workers : CacheStep(w, {TileKey})
SpecCache == InitCache /\ [][NextCache]_vars

\* one worker is handed any key
NextPath == CacheStep("w1", Keys)
SpecPath == InitCache /\ [][NextPath]_vars

\* ------------------------------------------------------------------------
\* service_from_args and webserver (src/webserver/server.rs)
\* ------------------------------------------------------------------------
\* the cache is not part of the runs of the server
NoCache ==
    /\ dirs = {<<>>} /\ files = << >> /\ noaccess = {}
    /\ cw = [w \in Workers |-> Idle]
    /\ clean = [k \in Keys |-> None]
    /\ handed = [k \in Keys |-> {}]

\* geometry types a PostGIS geometry column can have
GeomTypes == {"POINT", "LINESTRING", "POLYGON", "MULTIPOINT", "MULTILINESTRING",
              "MULTIPOLYGON", "GEOMETRY"}

\* values of --simplify and --clip on the command line
ArgValues == {None, Some("true"), Some("false"), Some("yes")}

\* a query limit a layer can carry when it comes out of detect_layers
UpstreamLimits == {None, Some(50)}

\* l.query_limit = Some(1000)
DefaultLimit == 1000

\* args.value_of(name).unwrap_or(default)
UnwrapOr(opt, default) == IF opt = None THEN default ELSE opt[1]

\* bool::from_str(s): Ok(true), Ok(false) or Err
BoolFromStr(s) ==
    IF s = "true" THEN Some(TRUE) ELSE IF s = "false" THEN Some(FALSE) ELSE None

\* let simplify = bool::from_str(...unwrap_or("true")).unwrap_or(false)
simplify == UnwrapOr(BoolFromStr(UnwrapOr(args.simplify, "true")), FALSE)

\* let clip = bool::from_str(...unwrap_or("true")).unwrap_or(false)
clip == UnwrapOr(BoolFromStr(UnwrapOr(args.clip, "true")), FALSE)

\* a Layer as pg.detect_layers returns it; a name is the number of the
\* table in the order of the table names
DetectedLayer(n, geom, limit) ==
    [name |-> n, geometry_type |-> geom, simplify |-> None,
     query_limit |-> limit, buffer_size |-> None]

\* pg.detect_layers(detect_geometry_types): one layer per table
DetectLayers ==
    UNION {
      {[i \in 1..n |-> DetectedLayer(i, g[i], q[i])] :
          g \in [1..n -> {None} \cup {Some(t) : t \in GeomTypes}],
          q \in [1..n -> UpstreamLimits]}
      : n \in 0..MaxLayers}

\* a tileset of a configuration file: one name, some layers
ConfigTilesets ==
    UNION {
      {<<[name |-> 1,
          layers |-> [i \in 1..n |-> DetectedLayer(i, g[i], None)]]>> :
          g \in [1..n -> {None} \cup {Some(t) : t \in GeomTypes}]}
      : n \in 1..MaxLayers}

\* if simplify { l.query_limit = Some(1000); }, on every layer
QueryLimitAlways(l, simp) == Some(DefaultLimit)

\* if simplify { l.query_limit = Some(1000); }
QueryLimit(l, simp) == IF simp THEN Some(DefaultLimit) ELSE l.query_limit

\* vec!["LINESTRING", "MULTILINESTRING", "POLYGON", "MULTIPOLYGON"]
BufferTypes == {"LINESTRING", "MULTILINESTRING", "POLYGON", "MULTIPOLYGON"}

\* a buffer for every layer of these types, clipped or not
BufferSizeUnclipped(l, cl) ==
    IF l.geometry_type # None /\ l.geometry_type[1] \in BufferTypes
    THEN Some(1) ELSE None

\* l.buffer_size = match l.geometry_type { ... }
BufferSize(l, cl) ==
    IF l.geometry_type # None
    THEN IF cl /\ l.geometry_type[1] \in BufferTypes THEN Some(1) ELSE None
    ELSE None

\* the types of the array in TilesetInfo::from_tileset
ViewerTypes == {"POINT", "LINESTRING", "POLYGON", "MULTPOINT", "MULTILINESTRING",
                "MULTIPOLYGON"}

\* l.geometry_type.clone().unwrap_or("UNKNOWN".to_string())
GeomTypeName(l) == UnwrapOr(l.geometry_type, "UNKNOWN")

\* TilesetInfo::from_tileset; an entry of layerinfos is the pair that
\* format!("{} [{}]", &l.name, &geom_type) prints
FromTileset(set) ==
    [name |-> set.name,
     layerinfos |-> [i \in 1..Len(set.layers) |->
                        <<set.layers[i].name, GeomTypeName(set.layers[i])>>],
     hasviewer |-> \A i \in 1..Len(set.layers) :
                        GeomTypeName(set.layers[i]) \in ViewerTypes]

RECURSIVE SortByName(_)
\* tileset_infos.sort_by_key(|ti| ti.name.clone())
SortByName(infos) ==
    IF infos = <<>> THEN <<>>
    ELSE LET i == CHOOSE i \in 1..Len(infos) :
                    /\ \A j \in 1..Len(infos) : infos[i].name <= infos[j].name
                    /\ \A j \in 1..(i - 1) : infos[j].name # infos[i].name
         IN <<infos[i]>> \o
            SortByName([j \in 1..(Len(infos) - 1) |->
                            IF j < i THEN infos[j] ELSE infos[j + 1]])

\* service_from_args is entered with --dbconn, and the layers are
\* detected; or with --config, and the service is built from the file
InitServer ==
    /\ NoCache
    /\ tileset_infos = <<>> /\ resp = None
    /\ \/ /\ args \in [simplify : ArgValues, clip : ArgValues]
          /\ detected \in DetectLayers
          /\ layers = detected
          /\ tilesets = <<>>
          /\ spc = "dbconn"
       \/ /\ args = [simplify |-> None, clip |-> None]
          /\ detected = <<>> /\ layers = <<>>
          /\ tilesets \in ConfigTilesets
          /\ spc = "service"

\* one turn of while let Some(mut l) = layers.pop() { ... }
DeriveLayer ==
    /\ spc = "dbconn" /\ layers # <<>>
    /\ LET l == layers[Len(layers)]
           d == [l EXCEPT !.simplify = Some(simplify),
                          !.query_limit = QueryLimit(l, simplify),
                          !.buffer_size = BufferSize(l, clip)]
       IN tilesets' = Append(tilesets, [name |-> l.name, layers |-> <<d>>])
    /\ layers' = SubSeq(layers, 1, Len(layers) - 1)
    /\ UNCHANGED <<args, detected, tileset_infos, spc, resp>>
    /\ UNCHANGED cacheVars

\* layers.pop() is None: let svc = MvtService { ... }
BuildService ==
    /\ spc = "dbconn" /\ layers = <<>>
    /\ spc' = "service"
    /\ UNCHANGED <<args, detected, layers, tilesets, tileset_infos, resp>>
    /\ UNCHANGED cacheVars

\* webserver, from service_from_args to server.listen
Webserver ==
    /\ spc = "service"
    /\ tileset_infos' =
          SortByName([i \in 1..Len(tilesets) |-> FromTileset(tilesets[i])])
    /\ spc' = "listening"
    /\ UNCHANGED <<args, detected, layers, tilesets, resp>>
    /\ UNCHANGED cacheVars

NextServer == DeriveLayer \/ BuildService \/ Webserver
SpecServer == InitServer /\ [][NextServer]_vars

\* ------------------------------------------------------------------------
\* The tile route "/:tileset/:z/:x/:y.pbf" (src/webserver/server.rs)
\* ------------------------------------------------------------------------
\* A path parameter is a sequence of characters.  A parsed number is the
\* sequence of its decimal digits without leading zeros, so that the
\* width of u32 is kept.
Digits == <<"0", "1", "2", "3", "4", "5", "6", "7", "8", "9">>
IsDigit(c) == \E d \in 1..10 : Digits[d] = c
DigitValue(c) == (CHOOSE d \in 1..10 : Digits[d] = c) - 1

U8Max == <<"2", "5", "5">>
U32Max == <<"4", "2", "9", "4", "9", "6", "7", "2", "9", "5">>

RECURSIVE StripZeros(_)
StripZeros(ds) ==
    IF Len(ds) > 1 /\ Head(ds) = "0" THEN StripZeros(Tail(ds)) ELSE ds

RECURSIVE DigitsLess(_, _)
\* a < b, for digit sequences of one length
DigitsLess(a, b) ==
    IF a = <<>> THEN FALSE
    ELSE IF Head(a) # Head(b) THEN DigitValue(Head(a)) < DigitValue(Head(b))
    ELSE DigitsLess(Tail(a), Tail(b))

\* the number a exceeds the number b
Exceeds(a, b) == Len(a) > Len(b) \/ (Len(a) = Len(b) /\ DigitsLess(b, a))

\* str::parse::<u8>() and str::parse::<u32>(): an optional "+", then one
\* or more digits of a number that is at most max
ParseUnsigned(src, max) ==
    LET digits == IF src # <<>> /\ Head(src) = "+" THEN Tail(src) ELSE src IN
    IF digits = <<>> THEN None
    ELSE IF \E i \in 1..Len(digits) : ~IsDigit(digits[i]) THEN None
    ELSE IF Exceeds(StripZeros(digits), max) THEN None
    ELSE Some(StripZeros(digits))

\* the :z, :x and :y a client sends
ZParams == {<<"0">>, <<"1", "4">>, U8Max, <<"2", "5", "6">>, <<"z">>, <<"-", "1">>}
XYParams == {<<"0">>, <<"+", "7">>, U32Max,
             <<"4", "2", "9", "4", "9", "6", "7", "2", "9", "6">>, <<"1", "e", "3">>}

\* the :tileset a client sends: the tileset of the service, and another
TilesetParams == {1, 2}

\* service.tile_cached(tileset, x, y, z, gzip)
TileCached(tileset) ==
    IF \E i \in 1..Len(tilesets) : tilesets[i].name = tileset
    THEN "tile" ELSE "not_found"

\* a service with one tileset is listening
InitTile ==
    /\ NoCache
    /\ args = [simplify |-> None, clip |-> None]
    /\ detected = <<>> /\ layers = <<>>
    /\ tilesets = <<[name |-> 1,
                     layers |-> <<DetectedLayer(1, Some("POINT"), None)>>]>>
    /\ tileset_infos = <<FromTileset(tilesets[1])>>
    /\ spc = "listening"
    /\ resp = None

\* the handler of server.get("/:tileset/:z/:x/:y.pbf", ...): each
\* .parse().unwrap() panics on Err
TileRoute(tileset, zs, xs, ys) ==
    /\ spc = "listening"
    /\ LET z == ParseUnsigned(zs, U8Max)
           x == ParseUnsigned(xs, U32Max)
           y == ParseUnsigned(ys, U32Max)
           req == <<tileset, zs, xs, ys>>
       IN resp' = Some(
            IF z = None
            THEN [req |-> req, z |-> None, x |-> None, y |-> None,
                  outcome |-> "panic"]
            ELSE IF x = None
            THEN [req |-> req, z |-> z, x |-> None, y |-> None,
                  outcome |-> "panic"]
            ELSE IF y = None
            THEN [req |-> req, z |-> z, x |-> x, y |-> None,
                  outcome |-> "panic"]
            ELSE [req |-> req, z |-> z, x |-> x, y |-> y,
                  outcome |-> TileCached(tileset)])
    /\ UNCHANGED <<args, detected, layers, tilesets, tileset_infos, spc>>
    /\ UNCHANGED cacheVars

NextTile ==
    \E tileset \in TilesetParams, zs \in ZParams, xs \in XYParams, ys \in XYParams :
        TileRoute(tileset, zs, xs, ys)
SpecTile == InitTile /\ [][NextTile]_vars

\* ------------------------------------------------------------------------
\* Claims about the Filecache
\* ------------------------------------------------------------------------
ReadDone(w) == cw[w].op = "read" /\ cw[w].pc = "done"
WriteDone(w) == cw[w].op = "write" /\ cw[w].pc = "done"

\* C1: after a write(K, B) that returned Ok and that no other write of K
\* overlapped or followed, read(K, consumer) invokes the consumer once on a
\* stream of exactly the bytes B and returns true, and exists(K) is true.
RoundTrip ==
    /\ \A w \in Workers :
         /\ (ReadDone(w) /\ cw[w].expect # None) =>
               /\ cw[w].ret = "true"
               /\ cw[w].calls = 1
               /\ cw[w].seen = cw[w].expect
         /\ (cw[w].op = "exists" /\ cw[w].expect # None) => cw[w].ret = "true"
    /\ \A k \in Keys : clean[k] # None => Exists(k) /\ Entry(k) = clean[k]

\* a read that followed an undisturbed write of MaxLen bytes has returned
RoundTripHappens ==
    \E w \in Workers :
        /\ ReadDone(w) /\ cw[w].ret = "true"
        /\ cw[w].expect # None /\ cw[w].seen = cw[w].expect
        /\ Len(cw[w].seen[1]) = MaxLen
        /\ Exists(cw[w].path[1])

\* C2: a read that invokes its consumer shows it a blob that was handed to
\* some write of the key, never an empty, truncated or partly written one.
AtomicWrite ==
    \A w \in Workers :
        (ReadDone(w) /\ cw[w].calls = 1 /\ cw[w].seen # None) =>
            cw[w].seen[1] \in handed[cw[w].path[1]]

\* C3: when a write that no other write of the key overlapped or followed
\* has returned an error, the entry of the key is what it was at the call.
FailedWriteKeepsEntry ==
    \A w \in Workers :
        (WriteDone(w) /\ cw[w].ret = "Err" /\ cw[w].solo) =>
            Entry(cw[w].path[1]) = cw[w].before

\* C4: read invokes the consumer once and returns true if and only if the
\* key existed and was readable when it was opened, and otherwise returns
\* false without invoking it; for a key no write was ever entered for,
\* exists is false and read returns false.
ReadIffReadable ==
    \A w \in Workers :
        /\ (cw[w].op = "read" /\ cw[w].pc = "consume") =>
              cw[w].found /\ cw[w].calls = 0
        /\ ReadDone(w) =>
              \/ cw[w].found /\ cw[w].ret = "true" /\ cw[w].calls = 1
              \/ ~cw[w].found /\ cw[w].ret = "false" /\ cw[w].calls = 0
        /\ (cw[w].path # None /\ cw[w].op \in {"read", "exists"}
              /\ handed[cw[w].path[1]] = {}) =>
              /\ cw[w].ret = "false" /\ cw[w].calls = 0
              /\ ~Exists(cw[w].path[1])

\* one read of a key has returned false and another read of it true
ReadBothWays ==
    \E w, v \in Workers :
        /\ ReadDone(w) /\ cw[w].ret = "true" /\ cw[w].calls = 1
        /\ ReadDone(v) /\ cw[v].ret = "false" /\ cw[v].calls = 0
        /\ cw[w].path = cw[v].path

\* C5: read, write and exists never open, create or test an entry outside
\* the base path.
PathSafe ==
    \A w \in Workers :
        cw[w].touched # None => IsUnder(cw[w].touched[1], basepath)

\* C10: once two writes of one key have both returned Ok, the entry of the
\* key is the full byte sequence of one of the two.
LastWriteWins ==
    \A w, v \in Workers :
        (w # v /\ WriteDone(w) /\ WriteDone(v) /\ cw[w].path = cw[v].path
              /\ cw[w].ret = "Ok" /\ cw[v].ret = "Ok") =>
            Entry(cw[w].path[1]) \in {Some(cw[w].obj), Some(cw[v].obj)}

\* ------------------------------------------------------------------------
\* Claims about the web server
\* ------------------------------------------------------------------------
\* the layers service_from_args has derived from the detected ones
DerivedLayers ==
    IF detected = <<>> THEN {}
    ELSE {tilesets[i].layers[1] : i \in 1..Len(tilesets)}

\* --clip and --simplify as the command line declares them: on unless the
\* option is given with another value than "true"
ClipEnabled == args.clip \in {None, Some("true")}
SimplifyDeclared == args.simplify \in {None, Some("true")}

LineOrPolygon == {"LINESTRING", "MULTILINESTRING", "POLYGON", "MULTIPOLYGON"}

\* C6: a derived layer has buffer_size Some(1) if and only if clip is
\* enabled and its geometry type is a line or polygon type; otherwise its
\* buffer_size is None.
BufferRule ==
    \A l \in DerivedLayers :
        IF ClipEnabled /\ l.geometry_type \in {Some(t) : t \in LineOrPolygon}
        THEN l.buffer_size = Some(1)
        ELSE l.buffer_size = None

\* with clip enabled, a polygon layer got its buffer and a point layer none
BufferRuleHappens ==
    /\ ClipEnabled
    /\ \E l \in DerivedLayers :
          l.geometry_type = Some("POLYGON") /\ l.buffer_size = Some(1)
    /\ \E l \in DerivedLayers :
          l.geometry_type = Some("POINT") /\ l.buffer_size = None

\* C7: a derived layer has the declared simplify flag; with simplify on,
\* its query_limit is the limit it carried from detect_layers if it had
\* one and 1000 otherwise; with simplify off, a layer that carried none
\* has none.
SimplifyLimitRule ==
    \A l \in DerivedLayers :
        /\ l.simplify = Some(SimplifyDeclared)
        /\ SimplifyDeclared =>
              l.query_limit = IF detected[l.name].query_limit # None
                              THEN detected[l.name].query_limit
                              ELSE Some(1000)
        /\ (~SimplifyDeclared /\ detected[l.name].query_limit = None) =>
              l.query_limit = None

\* C7, amended: a derived layer has the declared simplify flag; with
\* simplify on, its query_limit is 1000 whatever limit it carried; with
\* simplify off, its query_limit is the one it carried, None if none.
SimplifyLimitOverwrites ==
    \A l \in DerivedLayers :
        /\ l.simplify = Some(SimplifyDeclared)
        /\ SimplifyDeclared => l.query_limit = Some(1000)
        /\ ~SimplifyDeclared => l.query_limit = detected[l.name].query_limit

\* with simplify on, a layer that carried a limit has been derived, and so
\* has one that carried none
SimplifyLimitHappens ==
    /\ SimplifyDeclared
    /\ \E l \in DerivedLayers :
          detected[l.name].query_limit \notin {None, Some(1000)}
    /\ \E l \in DerivedLayers :
          detected[l.name].query_limit = None /\ l.query_limit = Some(1000)

OgcTypes == {"POINT", "LINESTRING", "POLYGON", "MULTIPOINT", "MULTILINESTRING",
             "MULTIPOLYGON"}

\* C8: hasviewer of a TilesetInfo is true if and only if every layer of
\* its tileset has one of the six OGC simple-feature geometry types.
HasViewerRule ==
    \A i \in 1..Len(tileset_infos) : \A j \in 1..Len(tilesets) :
        tilesets[j].name = tileset_infos[i].name =>
            (tileset_infos[i].hasviewer <=>
                \A n \in 1..Len(tilesets[j].layers) :
                    tilesets[j].layers[n].geometry_type
                        \in {Some(t) : t \in OgcTypes})

\* C9: a tile request with a malformed z, x or y, or an unknown tileset,
\* ends in a response of that request; the handler never panics.
NoPanic ==
    resp # None => resp[1].outcome \in {"tile", "not_found", "server_error"}

====
